---- MODULE Spec2Model ----
(***************************************************************************)
(* A model of microAO/aoAlg.py: the class AdaptiveOpticsFunctions.         *)
(*                                                                         *)
(* The object holds three fields (mask, fft_filter, controlMatrix).  Each  *)
(* operation of the class is modelled from its code.  Arrays are           *)
(* sequences (1-based here, 0-based in the source), None is the empty      *)
(* sequence, real numbers are integers or exact rationals <<num, den>>.    *)
(* Library routines whose numerical result cannot be computed here (FFT,   *)
(* phase unwrapping, Otsu threshold and centre of mass, curve_fit, pinv)   *)
(* are represented by what the code does with their result: an abstract    *)
(* value that records the arguments, or an input drawn from a small set.   *)
(***************************************************************************)
EXTENDS Integers, Sequences, FiniteSets, TLC

VARIABLES
    mask,           \* self.mask
    fft_filter,     \* self.fft_filter
    controlMatrix,  \* self.controlMatrix
    pc,             \* position of the running call(s)
    args,           \* arguments of the running / last call
    loc,            \* local variables of the running call(s)
    outcome         \* how the last call ended: returned value or raised error

vars == <<mask, fft_filter, controlMatrix, pc, args, loc, outcome>>

self == <<mask, fft_filter, controlMatrix>>

(***************************************************************************)
(* Bounds of the model.                                                    *)
(***************************************************************************)
MaxActuators == 2
MaxModes == 2
MaxRadius == 2
NumSamples == 3     \* calibration samples (rows of pokeSteps and zernikeAmps)
MaxStack == 6       \* images in the stack of one single-mode estimate
NumImages == 4      \* images in the stack of a multi-mode estimate
ImageSize == 6      \* side of the fringe image given to make_fft_filter
MaxDim == 12        \* largest phase-map side length
MaxTarget == 12     \* largest requested working resolution

(***************************************************************************)
(* Python / NumPy helpers.                                                 *)
(***************************************************************************)
None == <<>>

Min2(a, b) == IF a <= b THEN a ELSE b
Max2(a, b) == IF a >= b THEN a ELSE b
Abs(a) == IF a < 0 THEN -a ELSE a

RECURSIVE SumSeq(_)
SumSeq(s) == IF s = <<>> THEN 0 ELSE s[1] + SumSeq(Tail(s))

Zeros(n) == [k \in 1..n |-> 0]

\* np.shape(a)[0] of a sequence, np.shape(m)[1] of a matrix (rows of equal length)
Shape0(a) == Len(a)
Shape1(m) == Len(m[1])

\* how a call ends
NoOutcome == [kind |-> "none", exc |-> "", line |-> 0, value |-> <<>>, msg |-> <<>>]
Return(v) == [kind |-> "return", exc |-> "", line |-> 0, value |-> v, msg |-> <<>>]
Raise(e, l) == [kind |-> "raise", exc |-> e, line |-> l, value |-> <<>>, msg |-> <<>>]
\* an error whose message names something (an actuator number)
RaiseMsg(e, l, m) == [kind |-> "raise", exc |-> e, line |-> l, value |-> <<>>, msg |-> m]

NoArgs == [op |-> "none"]
NoLoc == [ii |-> 0]

(***************************************************************************)
(* __init__, the setters and make_mask.                                    *)
(***************************************************************************)
ObjInit ==
    /\ mask = None
    /\ fft_filter = None
    /\ controlMatrix = None

\* np.sqrt(i^2 + j^2) < radius over arange(-radius, radius): exact on integers
MakeMaskArray(radius) ==
    [i \in 1..(2 * radius) |->
        [j \in 1..(2 * radius) |->
            ((i - 1 - radius) * (i - 1 - radius)
              + (j - 1 - radius) * (j - 1 - radius)) < radius * radius]]

\* the filters and matrices a caller hands to the setters
SampleFilter(n) == [i \in 1..n |-> [j \in 1..n |-> IF i = 1 /\ j = 1 THEN 1 ELSE 0]]

SampleMatrix(a, m, k) == [i \in 1..a |-> [j \in 1..m |-> k * i + j - 2]]

ImageSides == {2 * r : r \in 1..MaxRadius}

ControlMatrices ==
    {SampleMatrix(a, m, k) : a \in 1..MaxActuators, m \in 1..MaxModes, k \in 1..2}

DesiredModes == UNION {[1..l -> {1, 2}] : l \in 0..(MaxModes + 1)}

set_mask ==
    /\ \E r \in 1..MaxRadius : mask' = MakeMaskArray(r)
    /\ args' = [op |-> "set_mask"]
    /\ outcome' = Return(None)
    /\ UNCHANGED <<fft_filter, controlMatrix, pc, loc>>

set_fft_filter ==
    /\ \E n \in ImageSides : fft_filter' = SampleFilter(n)
    /\ args' = [op |-> "set_fft_filter"]
    /\ outcome' = Return(None)
    /\ UNCHANGED <<mask, controlMatrix, pc, loc>>

set_controlMatrix ==
    /\ \E cm \in ControlMatrices : controlMatrix' = cm
    /\ args' = [op |-> "set_controlMatrix"]
    /\ outcome' = Return(None)
    /\ UNCHANGED <<mask, fft_filter, pc, loc>>

make_mask ==
    /\ \E radius \in 1..MaxRadius :
          /\ mask' = MakeMaskArray(radius)
          /\ args' = [op |-> "make_mask", radius |-> radius]
          /\ outcome' = Return(MakeMaskArray(radius))
    /\ UNCHANGED <<fft_filter, controlMatrix, pc, loc>>

(***************************************************************************)
(* unwrap_interferometry.  The transform and the unwrapping are not        *)
(* computed: a returned phase image is the abstract value                  *)
(* <<"phase_image", n>>.  What is modelled is which statement fails when   *)
(* a field is None or of another shape than the image (n x n).             *)
(*   line 221  np.fft.fftshift(self.fft_filter): on None, a 0-d object     *)
(*             array; np.roll of it raises ValueError in the NumPy         *)
(*             releases whose roll unpacks index pairs, and otherwise the  *)
(*             product of line 222 raises TypeError;                       *)
(*   line 222  fftarray * M: shapes must agree;                            *)
(*   line 241  phaseorder1 * self.mask: TypeError on None, ValueError on   *)
(*             a mask of another shape.                                    *)
(***************************************************************************)
\* (mutant of UnwrapOutcomes: a missing mask treated as "no masking")
UnwrapOutcomes_MaskOptional(filt, msk, n) ==
    IF filt = None
    THEN {Raise("ValueError", 221), Raise("TypeError", 222)}
    ELSE IF Shape0(filt) # n
    THEN {Raise("ValueError", 222)}
    ELSE IF msk # None /\ Shape0(msk) # n
    THEN {Raise("ValueError", 241)}
    ELSE {Return(<<"phase_image", n>>)}

UnwrapOutcomes(filt, msk, n) ==
    IF filt = None
    THEN {Raise("ValueError", 221), Raise("TypeError", 222)}
    ELSE IF Shape0(filt) # n
    THEN {Raise("ValueError", 222)}
    ELSE IF msk = None
    THEN {Raise("TypeError", 241)}
    ELSE IF Shape0(msk) # n
    THEN {Raise("ValueError", 241)}
    ELSE {Return(<<"phase_image", n>>)}

unwrap_interferometry ==
    /\ \E n \in ImageSides :
          /\ args' = [op |-> "unwrap_interferometry", image |-> n, held |-> self]
          /\ outcome' \in UnwrapOutcomes(fft_filter, mask, n)
    /\ UNCHANGED <<mask, fft_filter, controlMatrix, pc, loc>>

(***************************************************************************)
(* ac_pos_from_zernike.                                                    *)
(***************************************************************************)
\* np.pad(a, (0, pad_length), 'constant')
NpPad(a, pad_length) == a \o Zeros(pad_length)

\* a[:n]
Prefix(a, n) == SubSeq(a, 1, Min2(n, Len(a)))

\* np.dot(matrix, vector)
Dot(m, v) == [i \in 1..Len(m) |-> SumSeq([j \in 1..Len(v) |-> m[i][j] * v[j]])]

\* (mutant of FitModes: the padding put in front of the modes)
FitModes_PadLeft(applied_z_modes, cm) ==
    IF Shape0(applied_z_modes) < Shape1(cm)
    THEN Zeros(Shape1(cm) - Shape0(applied_z_modes)) \o applied_z_modes
    ELSE IF Shape0(applied_z_modes) > Shape1(cm)
    THEN Prefix(applied_z_modes, Shape1(cm))
    ELSE applied_z_modes

\* lines 315-321
FitModes(applied_z_modes, cm) ==
    IF Shape0(applied_z_modes) < Shape1(cm)
    THEN NpPad(applied_z_modes, Shape1(cm) - Shape0(applied_z_modes))
    ELSE IF Shape0(applied_z_modes) > Shape1(cm)
    THEN Prefix(applied_z_modes, Shape1(cm))
    ELSE applied_z_modes

\* lines 325-330
CheckLength(actuator_pos, numActuators) ==
    IF Len(actuator_pos) = numActuators
    THEN Return(actuator_pos)
    ELSE Raise("Exception", 328)

AcPosFromZernike(cm, applied_z_modes, numActuators) ==
    IF cm = None
    THEN Raise("IndexError", 315)    \* np.shape(None) is (): no index 1
    ELSE CheckLength(Dot(cm, FitModes(applied_z_modes, cm)), numActuators)

ac_pos_from_zernike ==
    /\ \E z \in DesiredModes, numActuators \in 1..(MaxActuators + 1) :
          /\ args' = [op |-> "ac_pos_from_zernike", applied_z_modes |-> z,
                      numActuators |-> numActuators, held |-> self]
          /\ outcome' = AcPosFromZernike(controlMatrix, z, numActuators)
    /\ UNCHANGED <<mask, fft_filter, controlMatrix, pc, loc>>

(***************************************************************************)
(* Sequences of calls on one object.                                       *)
(***************************************************************************)
Init ==
    /\ ObjInit
    /\ pc = "idle"
    /\ args = NoArgs
    /\ loc = NoLoc
    /\ outcome = NoOutcome

Next ==
    \/ set_mask
    \/ set_fft_filter
    \/ set_controlMatrix
    \/ make_mask
    \/ unwrap_interferometry
    \/ ac_pos_from_zernike

Spec == Init /\ [][Next]_vars

(***************************************************************************)
(* get_zernike_modes: the choice of the working resolution (lines 250-257).*)
(* The binning and the quadrature are not computed: the returned           *)
(* coefficient vector is the abstract value <<"coef", resize_dim, modes>>. *)
(***************************************************************************)
\* np.round(a / b) for integers a >= 0, b > 0: nearest, ties to even
NpRoundDiv(a, b) ==
    LET q == a \div b
        r == a % b
    IN  IF 2 * r < b THEN q
        ELSE IF 2 * r > b THEN q + 1
        ELSE IF q % 2 = 0 THEN q ELSE q + 1

\* (mutant of ResizeAdjust: the adjustment of lines 254-255 left out)
ResizeAdjust_Keep(original_dim, resize_dim) == resize_dim

\* lines 254-255: resize_dim < original_dim/resize_dim compares with the true
\* quotient, so it is resize_dim * resize_dim < original_dim
ResizeAdjust(original_dim, resize_dim) ==
    IF resize_dim * resize_dim < original_dim
    THEN NpRoundDiv(original_dim, resize_dim)
    ELSE resize_dim

\* a call starts: original_dim is the side of image_unwrap
get_zernike_modes_Init ==
    /\ ObjInit
    /\ pc = "resize_loop"
    /\ \E n \in 1..MaxDim, t \in 1..MaxTarget, k \in 1..MaxModes :
          /\ args = [op |-> "get_zernike_modes", original_dim |-> n,
                     resize_dim |-> t, noZernikeModes |-> k]
          /\ loc = [resize_dim |-> t]
    /\ outcome = NoOutcome

\* lines 251-252: one turn of the while loop ("is not 0" on the small
\* integers CPython shares is "# 0")
resize_decrement ==
    /\ pc = "resize_loop"
    /\ args.original_dim % loc.resize_dim # 0
    /\ loc' = [loc EXCEPT !.resize_dim = @ - 1]
    /\ UNCHANGED <<mask, fft_filter, controlMatrix, pc, args, outcome>>

\* lines 254-266: the loop has ended
resize_finish ==
    /\ pc = "resize_loop"
    /\ args.original_dim % loc.resize_dim = 0
    /\ loc' = [loc EXCEPT !.resize_dim = ResizeAdjust(args.original_dim, @)]
    /\ outcome' = Return(<<"coef", loc'.resize_dim, args.noZernikeModes>>)
    /\ pc' = "done"
    /\ UNCHANGED <<mask, fft_filter, controlMatrix, args>>

NextProject ==
    \/ resize_decrement
    \/ resize_finish

SpecProject == get_zernike_modes_Init /\ [][NextProject]_vars

(***************************************************************************)
(* create_control_matrix.  Slopes are exact rationals <<num, den>> in      *)
(* lowest terms with den > 0.  np.linalg.pinv(C_mat, rcond=threshold) is   *)
(* not computed: the control matrix it yields is the abstract value        *)
(* <<"pinv", C_mat>>.                                                      *)
(***************************************************************************)
RECURSIVE Gcd(_, _)
Gcd(a, b) == IF b = 0 THEN a ELSE Gcd(b, a % b)

Frac(num, den) ==
    LET g == Gcd(Abs(num), Abs(den))
        sgn == IF den < 0 THEN -1 ELSE 1
    IN  <<sgn * (num \div g), sgn * (den \div g)>>

FracZero == <<0, 1>>

\* np.zeros(n) and np.zeros((rows, cols)) of rationals
FracZeros(n) == [k \in 1..n |-> FracZero]
FracZeros2(rows, cols) == [r \in 1..rows |-> FracZeros(cols)]

\* np.where(pokeSteps[:, ii] != 0)[0], ii 0-based: the rows, in order
RECURSIVE NonzeroRowsUpTo(_, _, _)
NonzeroRowsUpTo(pokeSteps, ii, n) ==
    IF n = 0 THEN <<>>
    ELSE LET before == NonzeroRowsUpTo(pokeSteps, ii, n - 1)
         IN  IF pokeSteps[n][ii + 1] # 0 THEN Append(before, n) ELSE before

NonzeroRows(pokeSteps, ii) == NonzeroRowsUpTo(pokeSteps, ii, Len(pokeSteps))

\* line 286 and line 287 (column kk of zernikeModeAmp, kk 0-based)
PokeStepsTrimmed(pokeSteps, ii) ==
    LET rows == NonzeroRows(pokeSteps, ii)
    IN  [k \in 1..Len(rows) |-> pokeSteps[rows[k]][ii + 1]]

ZernikeModeAmp(zernikeAmps, pokeSteps, ii, kk) ==
    LET rows == NonzeroRows(pokeSteps, ii)
    IN  [k \in 1..Len(rows) |-> zernikeAmps[rows[k]][kk + 1]]

\* stats.linregress(x, y): the slope, or the ValueError it raises when all x
\* values are identical (written <<>>)
Linregress(x, y) ==
    LET n == Len(x)
        sx == SumSeq(x)
        sy == SumSeq(y)
        sxy == SumSeq([k \in 1..n |-> x[k] * y[k]])
        sxx == SumSeq([k \in 1..n |-> x[k] * x[k]])
        den == n * sxx - sx * sx
    IN  IF den = 0 THEN <<>> ELSE Frac(n * sxy - sx * sy, den)

\* lines 269-270: np.any(None) is None, np.any(array) is a bool and not None
PupilOrOnes(pupil_ac, numActuators) ==
    IF pupil_ac = None THEN [k \in 1..numActuators |-> 1] ELSE pupil_ac

\* (mutant of InPupil: the pupil mask ignored)
InPupil_Always(pupil_ac, ii) == TRUE

\* line 285
InPupil(pupil_ac, ii) == pupil_ac[ii + 1] = 1

\* (mutant of TooFewSamples: one sample accepted)
TooFewSamples_One(pokeSteps_trimmed) == Len(pokeSteps_trimmed) < 1

\* line 290
TooFewSamples(pokeSteps_trimmed) == Len(pokeSteps_trimmed) < 2

\* lines 296-301: the slopes array after the fits of actuator ii; an entry
\* whose fit raised keeps the value it had
SlopesAfter(slopes, zernikeAmps, pokeSteps, ii) ==
    [k \in 1..Len(slopes) |->
        LET fit == Linregress(PokeStepsTrimmed(pokeSteps, ii),
                              ZernikeModeAmp(zernikeAmps, pokeSteps, ii, k - 1))
        IN  IF fit = <<>> THEN slopes[k] ELSE fit]

\* line 304: C_mat[:, ii] = slopes[:]
SetColumn(C_mat, ii, slopes) ==
    [r \in 1..Len(C_mat) |-> [C_mat[r] EXCEPT ![ii + 1] = slopes[r]]]

\* line 310
Pinv(C_mat) == <<"pinv", C_mat>>

\* the samples of a calibration run: every sample pokes one actuator by 1 or
\* 2, or none, or all of them by 1; the measured modes respond to the sample
\* number s by one of three laws
PokeRows(numActuators) ==
    {Zeros(numActuators), [k \in 1..numActuators |-> 1]}
    \cup {[k \in 1..numActuators |-> IF k = a THEN v ELSE 0] :
              a \in 1..numActuators, v \in {1, 2}}

Response(law, s, m) ==
    IF law = 1 THEN s + m ELSE IF law = 2 THEN s * s * m ELSE m

ZernikeAmpsOf(law) == [s \in 1..NumSamples |-> [m \in 1..MaxModes |-> Response(law, s, m)]]

PupilMasks(numActuators) == {None} \cup [1..numActuators -> {0, 1}]

\* the matrix held before the call: none, or that of an earlier calibration
HeldMatrices == {None, Pinv(FracZeros2(MaxModes, MaxActuators))}

create_control_matrix_Init ==
    /\ mask = None
    /\ fft_filter = None
    /\ controlMatrix \in HeldMatrices
    /\ pc = "calib_loop"
    /\ \E pokeSteps \in [1..NumSamples -> PokeRows(MaxActuators)],
          law \in 1..3, pupil_ac \in PupilMasks(MaxActuators) :
          /\ args = [op |-> "create_control_matrix",
                     zernikeAmps |-> ZernikeAmpsOf(law), pokeSteps |-> pokeSteps,
                     numActuators |-> MaxActuators, pupil_ac |-> pupil_ac,
                     held |-> self]
          /\ loc = [ii |-> 0,
                    pupil_ac |-> PupilOrOnes(pupil_ac, MaxActuators),
                    slopes |-> FracZeros(MaxModes),
                    C_mat |-> FracZeros2(MaxModes, MaxActuators),
                    log |-> <<>>]
    /\ outcome = NoOutcome

\* lines 307-308: the actuator is not in the pupil
calib_skip ==
    /\ pc = "calib_loop"
    /\ loc.ii < args.numActuators
    /\ ~InPupil(loc.pupil_ac, loc.ii)
    /\ loc' = [loc EXCEPT !.log = Append(@, <<"skipped", loc.ii>>),
                          !.ii = @ + 1]
    /\ UNCHANGED <<mask, fft_filter, controlMatrix, pc, args, outcome>>

\* lines 290-292: the error names actuator ii + 1
calib_insufficient ==
    /\ pc = "calib_loop"
    /\ loc.ii < args.numActuators
    /\ InPupil(loc.pupil_ac, loc.ii)
    /\ TooFewSamples(PokeStepsTrimmed(args.pokeSteps, loc.ii))
    /\ outcome' = RaiseMsg("Exception", 291, <<loc.ii + 1>>)
    /\ pc' = "done"
    /\ UNCHANGED <<mask, fft_filter, controlMatrix, args, loc>>

\* lines 295-306
calib_fit ==
    /\ pc = "calib_loop"
    /\ loc.ii < args.numActuators
    /\ InPupil(loc.pupil_ac, loc.ii)
    /\ ~TooFewSamples(PokeStepsTrimmed(args.pokeSteps, loc.ii))
    /\ LET slopes == SlopesAfter(loc.slopes, args.zernikeAmps, args.pokeSteps, loc.ii)
       IN  loc' = [loc EXCEPT !.slopes = slopes,
                              !.C_mat = SetColumn(@, loc.ii, slopes),
                              !.ii = @ + 1]
    /\ UNCHANGED <<mask, fft_filter, controlMatrix, pc, args, outcome>>

\* lines 309-312
calib_finish ==
    /\ pc = "calib_loop"
    /\ loc.ii = args.numActuators
    /\ controlMatrix' = Pinv(loc.C_mat)
    /\ outcome' = Return(controlMatrix')
    /\ pc' = "done"
    /\ UNCHANGED <<mask, fft_filter, args, loc>>

NextCalib ==
    \/ calib_skip
    \/ calib_insufficient
    \/ calib_fit
    \/ calib_finish

SpecCalib == create_control_matrix_Init /\ [][NextCalib]_vars

(***************************************************************************)
(* find_zernike_amp_sensorless.  An image is represented by the value the  *)
(* metric function gives for it (lines 337-342), so an image stack is a    *)
(* sequence of integers.  curve_fit is not computed: its result is an      *)
(* input, either <<"RuntimeError">> (no convergence) or <<"ok", mean>>     *)
(* with the fitted peak location inside the bounds of lines 347-348.       *)
(* A returned amplitude is written as the sequence of the values returned: *)
(* one value for a float and for an array of one element.                  *)
(***************************************************************************)
RECURSIVE MinSeq(_)
MinSeq(a) == IF Len(a) = 1 THEN a[1] ELSE Min2(a[1], MinSeq(Tail(a)))

RECURSIVE MaxSeq(_)
MaxSeq(a) == IF Len(a) = 1 THEN a[1] ELSE Max2(a[1], MaxSeq(Tail(a)))

\* what curve_fit can do for these amplitudes (integer peak locations between
\* the smallest and the largest amplitude lie inside its bounds)
FitResults(zernike_amplitudes) ==
    {<<"RuntimeError">>}
    \cup (IF zernike_amplitudes = <<>> THEN {}
          ELSE {<<"ok", mu>> : mu \in MinSeq(zernike_amplitudes)..MaxSeq(zernike_amplitudes)})

\* lines 355-356: max - mean >= 2 * sqrt(var).  With n values, sum s and sum
\* of squares q it is  n*max - s >= 2 * sqrt(n*q - s*s), both sides >= 0.
\* The result is the set of the values the floating-point comparison can
\* take: exact when the two sides differ or the variance is 0 (every term
\* is then computed exactly), either one when they are equal otherwise.
ThresholdMet(metrics_measured) ==
    LET n == Len(metrics_measured)
        sm == SumSeq(metrics_measured)
        q == SumSeq([k \in 1..n |-> metrics_measured[k] * metrics_measured[k]])
        lhs == (n * MaxSeq(metrics_measured) - sm) * (n * MaxSeq(metrics_measured) - sm)
        rhs == 4 * (n * q - sm * sm)
    IN  IF lhs > rhs \/ rhs = 0 THEN {TRUE}
        ELSE IF lhs < rhs THEN {FALSE}
        ELSE BOOLEAN

\* line 358: zernike_amplitudes[metrics_measured == np.max(metrics_measured)]
RECURSIVE AtMaximum(_, _, _)
AtMaximum(zernike_amplitudes, metrics_measured, mx) ==
    IF metrics_measured = <<>> THEN <<>>
    ELSE (IF metrics_measured[1] = mx THEN <<zernike_amplitudes[1]>> ELSE <<>>)
         \o AtMaximum(Tail(zernike_amplitudes), Tail(metrics_measured), mx)

Negated(a) == [k \in 1..Len(a) |-> -a[k]]

\* lines 363-365: "%f" % amplitude_present needs one value
\* (TypeError: only size-1 arrays can be converted to Python scalars)
ReportAndReturn(amplitude_present) ==
    IF Len(amplitude_present) = 1
    THEN Return(amplitude_present)
    ELSE Raise("TypeError", 364)

\* lines 355-361
Fallback(metrics_measured, zernike_amplitudes, met) ==
    IF met
    THEN AtMaximum(zernike_amplitudes, metrics_measured, MaxSeq(metrics_measured))
    ELSE <<0>>

\* the ways a call can end, given what curve_fit did
FindAmpOutcomes(metrics_measured, zernike_amplitudes, fit) ==
    IF zernike_amplitudes = <<>>
    THEN {Raise("ValueError", 347)}      \* np.min of an empty array
    ELSE IF fit[1] = "ok"
    THEN {ReportAndReturn(Negated(<<fit[2]>>))}
    ELSE {ReportAndReturn(Negated(Fallback(metrics_measured, zernike_amplitudes, met))) :
             met \in ThresholdMet(metrics_measured)}

\* the applied amplitudes of a scan: consecutive values from a start, or one
\* value throughout
AmplitudeScans(n) ==
    {[k \in 1..n |-> start + k - 1] : start \in {-2, 0}} \cup {[k \in 1..n |-> 1]}

find_zernike_amp_sensorless_Init ==
    /\ ObjInit
    /\ pc = "amp_call"
    /\ \E n \in 1..MaxStack :
          \E image_stack \in [1..n -> {0, 1}], zernike_amplitudes \in AmplitudeScans(n) :
             \E fit \in FitResults(zernike_amplitudes) :
                args = [op |-> "find_zernike_amp_sensorless", image_stack |-> image_stack,
                        zernike_amplitudes |-> zernike_amplitudes, fit |-> fit]
    /\ loc = NoLoc
    /\ outcome = NoOutcome

find_zernike_amp_sensorless ==
    /\ pc = "amp_call"
    /\ outcome' \in FindAmpOutcomes(args.image_stack, args.zernike_amplitudes, args.fit)
    /\ pc' = "done"
    /\ UNCHANGED <<mask, fft_filter, controlMatrix, args, loc>>

NextAmp == find_zernike_amp_sensorless

SpecAmp == find_zernike_amp_sensorless_Init /\ [][NextAmp]_vars

(***************************************************************************)
(* get_zernike_modes_sensorless.  loc.calls lists, per call of             *)
(* find_zernike_amp_sensorless made so far, the two arguments handed to it *)
(* and the amplitude it returned.                                          *)
(***************************************************************************)
\* a[start:stop] for 0 <= start <= stop
PySlice(a, start, stop) == SubSeq(a, Min2(start, Len(a)) + 1, Min2(stop, Len(a)))

\* a[k] for an integer k: negative k counts from the end, k outside
\* -n..n-1 is an IndexError
PyIndexOk(k, n) == -n <= k /\ k < n
PyIndex(k, n) == IF k < 0 THEN k + n ELSE k

\* line 368: int(S / K) of non-negative S and positive K
NumMes(full_zernike_applied, nollZernike) ==
    Shape0(full_zernike_applied) \div Shape0(nollZernike)

\* (mutant of BlockRows: every block starts at the first image)
BlockRows_FromStart(a, ii, numMes) == PySlice(a, 0, numMes)

\* lines 372-373: a[ii * numMes:(ii + 1) * numMes]
BlockRows(a, ii, numMes) == PySlice(a, ii * numMes, (ii + 1) * numMes)

\* line 373: column k (0-based, as Python indexes it) of the rows
Column(rows, k) == [r \in 1..Len(rows) |-> rows[r][PyIndex(k, Len(rows[r])) + 1]]

\* the amplitudes applied during a multi-mode scan: column c holds a ramp of
\* slope c, or a ramp offset by 10 * c
AppliedLaw(law, r, c) == IF law = 1 THEN (r - 2) * c ELSE r + 10 * c

AppliedAmplitudes(law) ==
    [r \in 1..NumImages |-> [c \in 1..MaxModes |-> AppliedLaw(law, r, c)]]

\* mode numbers as callers can pass them: 1-based, and one below and above
NollIndices == UNION {[1..k -> 0..(MaxModes + 1)] : k \in 1..MaxModes}

get_zernike_modes_sensorless_Init ==
    /\ ObjInit
    /\ pc = "modes_loop"
    /\ \E full_image_stack \in [1..NumImages -> {0, 1}], law \in 1..2,
          nollZernike \in NollIndices :
          /\ args = [op |-> "get_zernike_modes_sensorless",
                     full_image_stack |-> full_image_stack,
                     full_zernike_applied |-> AppliedAmplitudes(law),
                     nollZernike |-> nollZernike]
          /\ loc = [ii |-> 0,
                    numMes |-> NumMes(AppliedAmplitudes(law), nollZernike),
                    coef |-> Zeros(Shape1(AppliedAmplitudes(law))),
                    calls |-> <<>>]
    /\ outcome = NoOutcome

\* line 373 (and 376) with a mode number outside the columns
modes_bad_index ==
    /\ pc = "modes_loop"
    /\ loc.ii < Shape0(args.nollZernike)
    /\ ~PyIndexOk(args.nollZernike[loc.ii + 1] - 1, Shape1(args.full_zernike_applied))
    /\ outcome' = Raise("IndexError", 373)
    /\ pc' = "done"
    /\ UNCHANGED <<mask, fft_filter, controlMatrix, args, loc>>

\* lines 372-376: one turn of the loop; an error of the single-mode
\* estimator ends the call
modes_block ==
    /\ pc = "modes_loop"
    /\ loc.ii < Shape0(args.nollZernike)
    /\ PyIndexOk(args.nollZernike[loc.ii + 1] - 1, Shape1(args.full_zernike_applied))
    /\ LET k == args.nollZernike[loc.ii + 1] - 1
           image_stack == BlockRows(args.full_image_stack, loc.ii, loc.numMes)
           zernike_applied ==
               Column(BlockRows(args.full_zernike_applied, loc.ii, loc.numMes), k)
       IN  \E fit \in FitResults(zernike_applied) :
           \E amp \in FindAmpOutcomes(image_stack, zernike_applied, fit) :
              IF amp.kind = "raise"
              THEN /\ outcome' = amp
                   /\ pc' = "done"
                   /\ UNCHANGED loc
              ELSE /\ loc' = [loc EXCEPT
                              !.coef[PyIndex(k, Len(loc.coef)) + 1] = amp.value[1],
                              !.calls = Append(@, [image_stack |-> image_stack,
                                                   zernike_applied |-> zernike_applied,
                                                   amp |-> amp.value[1]]),
                              !.ii = @ + 1]
                   /\ UNCHANGED <<pc, outcome>>
    /\ UNCHANGED <<mask, fft_filter, controlMatrix, args>>

\* line 378
modes_finish ==
    /\ pc = "modes_loop"
    /\ loc.ii = Shape0(args.nollZernike)
    /\ outcome' = Return(loc.coef)
    /\ pc' = "done"
    /\ UNCHANGED <<mask, fft_filter, controlMatrix, args, loc>>

NextModes ==
    \/ modes_bad_index
    \/ modes_block
    \/ modes_finish

SpecModes == get_zernike_modes_sensorless_Init /\ [][NextModes]_vars

(***************************************************************************)
(* make_fft_filter.  The spectrum is not computed: the first estimate of   *)
(* the carrier peak (lines 154-155) and the centroid found in each         *)
(* refinement window (line 180) are inputs.  maxpoint is <<x, y>>          *)
(* (maxpoint[0], maxpoint[1] in the source).  The cell (i, j) of           *)
(* fourier_mask is written 10 * i + j, so that the place of every cell of  *)
(* the window can be followed; 0 is a cell of the filter left at zero.     *)
(* An optional argument is <<>> (None) or <<value>>.                       *)
(***************************************************************************)
RefineIterations == 10
DefaultWindowDim == 100

\* a[start:stop] on an axis of length n: where the slice begins (0-based)
\* and how long it is, negative bounds counting from the end
SliceNorm(k, n) == IF k < 0 THEN Max2(k + n, 0) ELSE Min2(k, n)
SliceStart(start, stop, n) == SliceNorm(start, n)
SliceLen(start, stop, n) == Max2(0, SliceNorm(stop, n) - SliceNorm(start, n))

\* NumPy broadcasting of an axis of length src onto one of length dst
BroadcastOk(src, dst) == src = dst \/ src = 1

\* lines 160-165
WindowDim(window_dim) ==
    IF window_dim = None THEN DefaultWindowDim
    ELSE IF window_dim[1] % 2 # 0 THEN window_dim[1] + 1
    ELSE window_dim[1]

\* lines 185-190: int(data.shape[0] * (5.0 / 16.0))
MaskDi(mask_di, n) == IF mask_di = None THEN (5 * n) \div 16 ELSE mask_di[1]

\* lines 170-172: the slice of the spectrum can be copied into the window
WindowReadable(maxpoint, window_dim, n) ==
    /\ BroadcastOk(SliceLen(maxpoint[2] - window_dim \div 2,
                            maxpoint[2] + window_dim \div 2, n), window_dim)
    /\ BroadcastOk(SliceLen(maxpoint[1] - window_dim \div 2,
                            maxpoint[1] + window_dim \div 2, n), window_dim)

\* lines 192-193: np.min((0, abs(p - mask_di), abs(p - size) - mask_di))
Shift(p, mask_di, size) ==
    Min2(0, Min2(Abs(p - mask_di), Abs(p - size) - mask_di))

\* lines 197-200: floor and ceil of mask_di / 2.0
LowEdge(p, mask_di, shift) == p - (mask_di \div 2) + shift
HighEdge(p, mask_di, shift) == p + ((mask_di + 1) \div 2) + shift

MaskCell(i, j) == 10 * i + j

\* line 202: the slices can take fourier_mask (mask_di x mask_di)
WindowWritable(y_min, y_max, x_min, x_max, mask_di, n) ==
    /\ BroadcastOk(mask_di, SliceLen(y_min, y_max, n))
    /\ BroadcastOk(mask_di, SliceLen(x_min, x_max, n))

\* line 202: filter[y_min:y_max, x_min:x_max] = fourier_mask
WriteWindow(filter, y_min, y_max, x_min, x_max, mask_di) ==
    LET n == Len(filter)
        r0 == SliceStart(y_min, y_max, n)
        c0 == SliceStart(x_min, x_max, n)
        rows == SliceLen(y_min, y_max, n)
        cols == SliceLen(x_min, x_max, n)
    IN  [r \in 1..n |-> [c \in 1..n |->
            IF r0 < r /\ r <= r0 + rows /\ c0 < c /\ c <= c0 + cols
            THEN MaskCell(IF mask_di = rows THEN r - r0 ELSE 1,
                          IF mask_di = cols THEN c - c0 ELSE 1)
            ELSE filter[r][c]]]

\* np.roll(a, shift, axis=1) and np.roll(a, shift, axis=0)
NpRollAxis1(a, shift) ==
    [r \in 1..Len(a) |-> [c \in 1..Len(a[r]) |-> a[r][((c - 1 - shift) % Len(a[r])) + 1]]]
NpRollAxis0(a, shift) ==
    [r \in 1..Len(a) |-> a[((r - 1 - shift) % Len(a)) + 1]]

Zeros2(n) == [r \in 1..n |-> Zeros(n)]

Points(n) == {<<x, y>> : x \in 0..(n - 1), y \in 0..(n - 1)}

\* the centroid of a window, rounded, as <<row, column>> offsets
Centroids(window_dim) ==
    {<<cy, cx>> : cy \in 0..(window_dim - 1), cx \in 0..(window_dim - 1)}

make_fft_filter_Init ==
    /\ ObjInit
    /\ pc = "refine"
    /\ \E window_dim \in {None, <<2>>, <<3>>}, mask_di \in {None, <<2>>, <<3>>},
          test_point \in Points(ImageSize) :
          /\ args = [op |-> "make_fft_filter", size |-> ImageSize,
                     window_dim |-> window_dim, mask_di |-> mask_di, held |-> self]
          /\ loc = [ii |-> 0, maxpoint |-> test_point,
                    window_dim |-> WindowDim(window_dim),
                    mask_di |-> MaskDi(mask_di, ImageSize),
                    x_shift |-> 0, y_shift |-> 0]
    /\ outcome = NoOutcome

\* lines 169-182: one refinement
refine_step ==
    /\ pc = "refine"
    /\ loc.ii < RefineIterations
    /\ WindowReadable(loc.maxpoint, loc.window_dim, args.size)
    /\ \E CoM \in Centroids(loc.window_dim) :
          loc' = [loc EXCEPT
                    !.maxpoint = <<@[1] - loc.window_dim \div 2 + CoM[2],
                                   @[2] - loc.window_dim \div 2 + CoM[1]>>,
                    !.ii = @ + 1]
    /\ UNCHANGED <<mask, fft_filter, controlMatrix, pc, args, outcome>>

\* lines 173-175: the ValueError of the copy becomes the "stripes are too
\* fine" Exception
refine_fail ==
    /\ pc = "refine"
    /\ loc.ii < RefineIterations
    /\ ~WindowReadable(loc.maxpoint, loc.window_dim, args.size)
    /\ outcome' = Raise("Exception", 174)
    /\ pc' = "done"
    /\ UNCHANGED <<mask, fft_filter, controlMatrix, args, loc>>

\* lines 184-200: the held filter becomes an array of zeros
filter_zero ==
    /\ pc = "refine"
    /\ loc.ii = RefineIterations
    /\ fft_filter' = Zeros2(args.size)
    /\ loc' = [loc EXCEPT !.x_shift = Shift(loc.maxpoint[1], loc.mask_di, args.size),
                          !.y_shift = Shift(loc.maxpoint[2], loc.mask_di, args.size)]
    /\ pc' = "filter_write"
    /\ UNCHANGED <<mask, controlMatrix, args, outcome>>

\* line 202: the window is written into the held array
filter_write ==
    /\ pc = "filter_write"
    /\ LET y_min == LowEdge(loc.maxpoint[2], loc.mask_di, loc.y_shift)
           y_max == HighEdge(loc.maxpoint[2], loc.mask_di, loc.y_shift)
           x_min == LowEdge(loc.maxpoint[1], loc.mask_di, loc.x_shift)
           x_max == HighEdge(loc.maxpoint[1], loc.mask_di, loc.x_shift)
       IN  /\ WindowWritable(y_min, y_max, x_min, x_max, loc.mask_di, args.size)
           /\ fft_filter' = WriteWindow(fft_filter, y_min, y_max, x_min, x_max, loc.mask_di)
    /\ pc' = "filter_roll_x"
    /\ UNCHANGED <<mask, controlMatrix, args, loc, outcome>>

\* line 202: the slices do not have the window's shape (ValueError)
filter_write_fail ==
    /\ pc = "filter_write"
    /\ LET y_min == LowEdge(loc.maxpoint[2], loc.mask_di, loc.y_shift)
           y_max == HighEdge(loc.maxpoint[2], loc.mask_di, loc.y_shift)
           x_min == LowEdge(loc.maxpoint[1], loc.mask_di, loc.x_shift)
           x_max == HighEdge(loc.maxpoint[1], loc.mask_di, loc.x_shift)
       IN  ~WindowWritable(y_min, y_max, x_min, x_max, loc.mask_di, args.size)
    /\ outcome' = Raise("ValueError", 202)
    /\ pc' = "done"
    /\ UNCHANGED <<mask, fft_filter, controlMatrix, args, loc>>

\* line 203
filter_roll_x ==
    /\ pc = "filter_roll_x"
    /\ fft_filter' = NpRollAxis1(fft_filter, -loc.x_shift)
    /\ pc' = "filter_roll_y"
    /\ UNCHANGED <<mask, controlMatrix, args, loc, outcome>>

\* lines 204-205
filter_roll_y ==
    /\ pc = "filter_roll_y"
    /\ fft_filter' = NpRollAxis0(fft_filter, -loc.y_shift)
    /\ outcome' = Return(fft_filter')
    /\ pc' = "done"
    /\ UNCHANGED <<mask, controlMatrix, args, loc>>

NextFilter ==
    \/ refine_step
    \/ refine_fail
    \/ filter_zero
    \/ filter_write
    \/ filter_write_fail
    \/ filter_roll_x
    \/ filter_roll_y

SpecFilter == make_fft_filter_Init /\ [][NextFilter]_vars

(***************************************************************************)
(* Calibration running beside extraction and synthesis on one object.      *)
(* The writer is make_fft_filter from line 184 on (the refinement has      *)
(* ended at some peak) and the assignment of line 310; the readers are the *)
(* three loads of self.fft_filter in unwrap_interferometry (line 221 and   *)
(* the two of line 226) and two of the loads of self.controlMatrix in      *)
(* ac_pos_from_zernike (lines 315 and 323).  The threads interleave        *)
(* between statements.  loc.seen and loc.seen_matrix list what the         *)
(* readers loaded.                                                         *)
(***************************************************************************)
\* the matrix a finished calibration assigns
NewMatrix == Pinv([FracZeros2(MaxModes, MaxActuators) EXCEPT ![1][1] = <<1, 1>>])

Concurrent_Init ==
    /\ mask = None
    /\ fft_filter \in {None, SampleFilter(ImageSize)}
    /\ controlMatrix \in HeldMatrices
    /\ pc = "refine"
    /\ args = [op |-> "make_fft_filter", size |-> ImageSize,
               window_dim |-> <<2>>, mask_di |-> <<2>>, held |-> self]
    /\ \E maxpoint \in Points(ImageSize) :
          loc = [ii |-> RefineIterations, maxpoint |-> maxpoint,
                 window_dim |-> 2, mask_di |-> 2, x_shift |-> 0, y_shift |-> 0,
                 reader |-> "r221", seen |-> <<>>,
                 synth |-> "s315", seen_matrix |-> <<>>,
                 calib |-> "c310"]
    /\ outcome = NoOutcome

\* line 221: np.fft.fftshift(self.fft_filter); on None the call fails
reader_load_221 ==
    /\ loc.reader = "r221"
    /\ loc' = [loc EXCEPT !.seen = Append(@, fft_filter),
                          !.reader = IF fft_filter = None THEN "raised" ELSE "r226"]
    /\ UNCHANGED <<mask, fft_filter, controlMatrix, pc, args, outcome>>

\* line 226: the left operand of ==
reader_load_226 ==
    /\ loc.reader = "r226"
    /\ loc' = [loc EXCEPT !.seen = Append(@, fft_filter), !.reader = "r226max"]
    /\ UNCHANGED <<mask, fft_filter, controlMatrix, pc, args, outcome>>

\* line 226: the argument of np.max
reader_load_226_max ==
    /\ loc.reader = "r226max"
    /\ loc' = [loc EXCEPT !.seen = Append(@, fft_filter), !.reader = "done"]
    /\ UNCHANGED <<mask, fft_filter, controlMatrix, pc, args, outcome>>

\* line 315: np.shape(self.controlMatrix); on None the call fails
synth_load_315 ==
    /\ loc.synth = "s315"
    /\ loc' = [loc EXCEPT !.seen_matrix = Append(@, controlMatrix),
                          !.synth = IF controlMatrix = None THEN "raised" ELSE "s323"]
    /\ UNCHANGED <<mask, fft_filter, controlMatrix, pc, args, outcome>>

\* line 323: np.dot(self.controlMatrix, applied_z_modes)
synth_load_323 ==
    /\ loc.synth = "s323"
    /\ loc' = [loc EXCEPT !.seen_matrix = Append(@, controlMatrix), !.synth = "done"]
    /\ UNCHANGED <<mask, fft_filter, controlMatrix, pc, args, outcome>>

\* line 310: self.controlMatrix = np.linalg.pinv(...), one assignment
calib_assign_310 ==
    /\ loc.calib = "c310"
    /\ controlMatrix' = NewMatrix
    /\ loc' = [loc EXCEPT !.calib = "done"]
    /\ UNCHANGED <<mask, fft_filter, pc, args, outcome>>

NextConcurrent ==
    \/ filter_zero
    \/ filter_write
    \/ filter_write_fail
    \/ filter_roll_x
    \/ filter_roll_y
    \/ calib_assign_310
    \/ reader_load_221
    \/ reader_load_226
    \/ reader_load_226_max
    \/ synth_load_315
    \/ synth_load_323

SpecConcurrent == Concurrent_Init /\ [][NextConcurrent]_vars

(***************************************************************************)
(* Claims about command synthesis and the uncalibrated object.             *)
(***************************************************************************)
\* desiredModes zero-padded on the right or truncated to m entries
PaddedModes(v, m) == [j \in 1..m |-> IF j <= Len(v) THEN v[j] ELSE 0]

MatVec(cm, v) == [i \in 1..Len(cm) |-> SumSeq([j \in 1..Len(cm[i]) |-> cm[i][j] * v[j]])]

\* C1: with a held ControlMatrix of shape (A x M), ac_pos_from_zernike either
\* returns ControlMatrix x v' (v' = desiredModes zero-padded on the right or
\* truncated to M entries), of length numActuators, or, when A differs from
\* numActuators, fails with the dimension-mismatch error; it never returns a
\* vector whose length differs from numActuators.
C1_SynthesizeResult ==
    (args.op = "ac_pos_from_zernike" /\ args.held[3] # None) =>
        LET cm == args.held[3]
            expected == MatVec(cm, PaddedModes(args.applied_z_modes, Len(cm[1])))
        IN  /\ Len(cm) = args.numActuators => outcome = Return(expected)
            /\ Len(cm) # args.numActuators => outcome = Raise("Exception", 328)
            /\ outcome.kind = "return" => Len(outcome.value) = args.numActuators

\* C1 witness: a padded call (L < M) that returned a command vector
C1_Witness ==
    /\ args.op = "ac_pos_from_zernike"
    /\ args.held[3] # None
    /\ 0 < Len(args.applied_z_modes)
    /\ Len(args.applied_z_modes) < Len(args.held[3][1])
    /\ outcome.kind = "return"

\* C5: unwrap_interferometry called while fft_filter or mask is None, and
\* ac_pos_from_zernike called while controlMatrix is None, fail with an error,
\* return nothing, and leave the three held fields as they were.
C5_UncalibratedFails ==
    /\ (args.op = "unwrap_interferometry"
           /\ (args.held[1] = None \/ args.held[2] = None))
         => (outcome.kind = "raise" /\ outcome.value = <<>> /\ self = args.held)
    /\ (args.op = "ac_pos_from_zernike" /\ args.held[3] = None)
         => (outcome.kind = "raise" /\ outcome.value = <<>> /\ self = args.held)

\* C5 witness: a filter of the image's shape is held, the mask is not, and the
\* extraction failed
C5_Witness ==
    /\ args.op = "unwrap_interferometry"
    /\ args.held[2] # None
    /\ Shape0(args.held[2]) = args.image
    /\ args.held[1] = None
    /\ outcome.kind = "raise"

(***************************************************************************)
(* Claims about the working resolution of get_zernike_modes.               *)
(***************************************************************************)
Divides(d, n) == n % d = 0

\* the largest divisor of n that is <= t (1 divides n, so one exists)
LargestDivisor(n, t) ==
    CHOOSE d \in 1..Min2(n, t) :
        /\ Divides(d, n)
        /\ \A e \in 1..Min2(n, t) : Divides(e, n) => e <= d

\* C8 as stated: the chosen resolution is the largest divisor of n that is
\* <= t; it divides n and never exceeds t.
C8_LargestDivisorAtMostTarget ==
    pc = "done" =>
        /\ loc.resize_dim = LargestDivisor(args.original_dim, args.resize_dim)
        /\ Divides(loc.resize_dim, args.original_dim)
        /\ loc.resize_dim <= args.resize_dim

\* C8 amended: the selection terminates (the loop variable stays >= 1 and the
\* loop can always step or end); with d the largest divisor of n that is <= t,
\* the chosen resolution is d when d * d >= n and n / d when d * d < n; it
\* always divides n, and it exceeds t exactly when d * d < n.
C8_ResolutionChosen ==
    /\ pc = "resize_loop" =>
          /\ loc.resize_dim >= 1
          /\ loc.resize_dim <= args.resize_dim
          /\ (ENABLED resize_decrement) \/ (ENABLED resize_finish)
    /\ pc = "done" =>
          LET n == args.original_dim
              d == LargestDivisor(n, args.resize_dim)
          IN  /\ d * d >= n => loc.resize_dim = d
              /\ d * d < n => loc.resize_dim * d = n
              /\ Divides(loc.resize_dim, n)
              /\ (loc.resize_dim > args.resize_dim) <=> (d * d < n)

\* C8 witness: a prime side length above the target: the loop ran down to 1
\* and the resolution was raised to the side length itself
C8_Witness ==
    /\ pc = "done"
    /\ args.original_dim = 7
    /\ args.resize_dim = 5
    /\ loc.resize_dim = 7

(***************************************************************************)
(* Claims about create_control_matrix.  Actuators are counted from 1 here. *)
(***************************************************************************)
Included(a) == args.pupil_ac = None \/ args.pupil_ac[a] = 1

NonzeroCount(a) == Cardinality({s \in 1..Len(args.pokeSteps) : args.pokeSteps[s][a] # 0})

Insufficient(a) == Included(a) /\ NonzeroCount(a) < 2

SomeInsufficient == \E a \in 1..args.numActuators : Insufficient(a)

FirstInsufficient ==
    CHOOSE a \in 1..args.numActuators :
        Insufficient(a) /\ \A b \in 1..(a - 1) : ~Insufficient(b)

\* the actuators below a that the pupil mask excludes, as the messages of
\* line 308 (which number actuators from 0)
RECURSIVE ExcludedBelow(_)
ExcludedBelow(a) ==
    IF a <= 1 THEN <<>>
    ELSE IF Included(a - 1) THEN ExcludedBelow(a - 1)
    ELSE Append(ExcludedBelow(a - 1), <<"skipped", a - 2>>)

\* C2: calibrate fails with the insufficient-samples error, naming an
\* included actuator that has fewer than 2 nonzero-step samples, whenever
\* there is such an actuator; then no control matrix is produced and the held
\* one is unchanged.  An actuator with 2 or more nonzero-step samples never
\* triggers the error.
C2_InsufficientSamplesFails ==
    pc = "done" =>
        /\ SomeInsufficient =>
              /\ outcome.kind = "raise"
              /\ outcome.exc = "Exception"
              /\ outcome.value = <<>>
              /\ controlMatrix = args.held[3]
        /\ outcome.kind = "raise" =>
              /\ Len(outcome.msg) = 1
              /\ outcome.msg[1] \in 1..args.numActuators
              /\ Insufficient(outcome.msg[1])
        /\ ~SomeInsufficient => outcome.kind = "return"

\* C2 witness: actuator 1 had enough samples, actuator 2 had exactly one, and
\* the call failed naming actuator 2 with a control matrix held before
C2_Witness ==
    /\ pc = "done"
    /\ args.op = "create_control_matrix"
    /\ args.held[3] # None
    /\ Included(1) /\ NonzeroCount(1) >= 2
    /\ Included(2) /\ NonzeroCount(2) = 1
    /\ outcome.kind = "raise"
    /\ outcome.msg = <<2>>

\* C7 as stated: a skipped actuator (excluded by the pupil mask, or with
\* insufficient samples) does not abort calibrate: unless every actuator
\* fails, the loop processes every actuator and a control matrix is produced.
C7_SkipsNeverAbort ==
    pc = "done" =>
        ((\E a \in 1..args.numActuators : Included(a) /\ NonzeroCount(a) >= 2)
            => /\ outcome.kind = "return"
               /\ loc.ii = args.numActuators
               /\ controlMatrix = Pinv(loc.C_mat))

\* C7 amended: an actuator excluded by the pupil mask is reported and skipped
\* and the loop goes on; a control matrix is produced, also when every
\* actuator is excluded, provided no included actuator has fewer than 2
\* nonzero-step samples.  An included actuator with too few samples is not
\* skipped: the call aborts at the first such actuator, later actuators are
\* not processed and no control matrix is produced.
C7_ExclusionSkipsInsufficientAborts ==
    pc = "done" =>
        IF SomeInsufficient
        THEN /\ outcome.kind = "raise"
             /\ loc.ii = FirstInsufficient - 1
             /\ loc.log = ExcludedBelow(FirstInsufficient)
             /\ controlMatrix = args.held[3]
        ELSE /\ outcome = Return(Pinv(loc.C_mat))
             /\ controlMatrix = Pinv(loc.C_mat)
             /\ loc.ii = args.numActuators
             /\ loc.log = ExcludedBelow(args.numActuators + 1)

\* C7 witness: actuator 1 is excluded and reported, actuator 2 is fitted,
\* and a control matrix is produced
C7_Witness ==
    /\ pc = "done"
    /\ args.op = "create_control_matrix"
    /\ ~Included(1)
    /\ Included(2)
    /\ loc.log = <<(<<"skipped", 0>>)>>
    /\ outcome.kind = "return"
    /\ controlMatrix = Pinv(loc.C_mat)

\* the column of actuator a fitted from its own nonzero-step samples alone:
\* the regression slope per mode, and the untouched zero where the
\* regression cannot be computed
OwnSlope(a, m) ==
    LET rows == SelectSeq([s \in 1..Len(args.pokeSteps) |-> s],
                          LAMBDA s : args.pokeSteps[s][a] # 0)
        fit == Linregress([k \in 1..Len(rows) |-> args.pokeSteps[rows[k]][a]],
                          [k \in 1..Len(rows) |-> args.zernikeAmps[rows[k]][m]])
    IN  IF fit = <<>> THEN FracZero ELSE fit

\* C9: in the sensitivity matrix of a finished calibration, the entry of mode
\* m and included actuator a is the slope fitted from a's own samples and
\* depends on no other actuator, also when a's regression cannot be computed;
\* the column of an excluded actuator is zero.
C9_ColumnFromOwnSamples ==
    (pc = "done" /\ outcome.kind = "return") =>
        \A a \in 1..args.numActuators, m \in 1..Len(loc.C_mat) :
            loc.C_mat[m][a] = IF Included(a) THEN OwnSlope(a, m) ELSE FracZero

(***************************************************************************)
(* Claims about find_zernike_amp_sensorless.                               *)
(***************************************************************************)
\* max(metric) - mean(metric) >= 2 * stddev(metric), exactly
AboveTwoSigma(m) ==
    LET n == Len(m)
        sm == SumSeq(m)
        q == SumSeq([k \in 1..n |-> m[k] * m[k]])
        d == n * MaxSeq(m) - sm
    IN  d * d >= 4 * (n * q - sm * sm)

\* strictly above, and strictly below, the threshold
ClearlyAbove(m) ==
    LET n == Len(m)
        sm == SumSeq(m)
        q == SumSeq([k \in 1..n |-> m[k] * m[k]])
        d == n * MaxSeq(m) - sm
    IN  d * d > 4 * (n * q - sm * sm) \/ n * q = sm * sm

\* the amplitudes at which the maximum metric was observed
AmplitudesAtMax(m, z) == {z[k] : k \in {j \in 1..Len(m) : m[j] = MaxSeq(m)}}

\* C3: when the fit fails to converge the call never raises and returns one
\* value: an amplitude at which the maximum metric was observed if
\* max - mean >= 2 * stddev, and 0 otherwise (the value is compared up to its
\* sign: the code returns the negated peak location; a threshold met with
\* equality is left to the floating-point comparison).
C3_FallbackNeverRaises ==
    (pc = "done" /\ args.op = "find_zernike_amp_sensorless" /\ args.fit[1] = "RuntimeError") =>
        /\ outcome.kind = "return"
        /\ Len(outcome.value) = 1
        /\ ClearlyAbove(args.image_stack) =>
              \E a \in AmplitudesAtMax(args.image_stack, args.zernike_amplitudes) :
                 Abs(outcome.value[1]) = Abs(a)
        /\ ~AboveTwoSigma(args.image_stack) => outcome.value[1] = 0

(***************************************************************************)
(* Claims about get_zernike_modes_sensorless.  Blocks i and output         *)
(* positions p are counted from 0, as in the claim.                        *)
(***************************************************************************)
StackLen == Len(args.full_image_stack)
ModeCount == Len(args.nollZernike)
ColumnCount == Len(args.full_zernike_applied[1])
BlockLen == StackLen \div ModeCount

\* the images of block i: [i * floor(S/K), (i + 1) * floor(S/K))
BlockImages(i) == {r \in 0..(StackLen - 1) : i * BlockLen <= r /\ r < (i + 1) * BlockLen}

\* block i was estimated from its own images and from column
\* modeIndices[i] - 1 of the amplitudes of its own rows
BlockUsesOwnRows(i) ==
    LET call == loc.calls[i + 1]
        col == args.nollZernike[i + 1]
    IN  /\ Len(call.image_stack) = BlockLen
        /\ Len(call.zernike_applied) = BlockLen
        /\ \A r \in BlockImages(i) :
              /\ call.image_stack[r - i * BlockLen + 1] = args.full_image_stack[r + 1]
              /\ call.zernike_applied[r - i * BlockLen + 1]
                    = args.full_zernike_applied[r + 1][col]

ReturnedModes ==
    /\ pc = "done"
    /\ args.op = "get_zernike_modes_sensorless"
    /\ outcome.kind = "return"
    /\ \A i \in 1..ModeCount : args.nollZernike[i] \in 1..ColumnCount

\* C4 as stated: the blocks are contiguous and disjoint, each is estimated
\* from its own rows and its mode's column, output position
\* modeIndices[i] - 1 holds block i's estimate for every i, and every other
\* position is zero.
C4_EveryBlockScattered ==
    ReturnedModes =>
        /\ \A i \in 0..(ModeCount - 1) :
              /\ BlockUsesOwnRows(i)
              /\ outcome.value[args.nollZernike[i + 1]] = loc.calls[i + 1].amp
        /\ \A p \in 0..(ColumnCount - 1) :
              (\A i \in 1..ModeCount : args.nollZernike[i] # p + 1) => outcome.value[p + 1] = 0

\* C4 amended: when every mode number lies in 1..M (M columns of amplitudes)
\* and the call returns, the K blocks of floor(S/K) images are pairwise
\* disjoint, each is estimated from its own rows and its mode's column, and
\* output position p holds the estimate of the last block whose mode number
\* is p + 1, and zero when no mode number is p + 1.
C4_LastBlockScattered ==
    ReturnedModes =>
        /\ Len(loc.calls) = ModeCount
        /\ Len(outcome.value) = ColumnCount
        /\ \A i, j \in 0..(ModeCount - 1) : i # j => BlockImages(i) \cap BlockImages(j) = {}
        /\ \A i \in 0..(ModeCount - 1) : BlockUsesOwnRows(i)
        /\ \A p \in 0..(ColumnCount - 1) :
              LET named == {i \in 0..(ModeCount - 1) : args.nollZernike[i + 1] = p + 1}
              IN  IF named = {}
                  THEN outcome.value[p + 1] = 0
                  ELSE \E i \in named :
                          /\ \A j \in named : j <= i
                          /\ outcome.value[p + 1] = loc.calls[i + 1].amp

\* C4 witness: two blocks of two images, both for mode 2, estimated to
\* different amplitudes; position 1 holds the second block's estimate
C4_Witness ==
    /\ ReturnedModes
    /\ args.nollZernike = <<2, 2>>
    /\ BlockLen = 2
    /\ loc.calls[1].amp # 0
    /\ loc.calls[2].amp # 0
    /\ loc.calls[1].amp # loc.calls[2].amp
    /\ outcome.value = <<0, loc.calls[2].amp>>

(***************************************************************************)
(* Claims about make_fft_filter.                                           *)
(***************************************************************************)
\* the refinement window around p lies inside [0, n) on both axes
WindowInBounds(p, w, n) ==
    /\ 0 <= p[1] - w \div 2 /\ p[1] + w \div 2 <= n
    /\ 0 <= p[2] - w \div 2 /\ p[2] + w \div 2 <= n

\* f has the spectrum's shape, holds every cell of the d x d window once,
\* placed from some origin with wrapping at the edges, and is zero elsewhere
HoldsWholeWindow(f, d, n) ==
    /\ Len(f) = n
    /\ \A r \in 1..n : Len(f[r]) = n
    /\ \E y0 \in 0..(n - 1), x0 \in 0..(n - 1) :
          \A r \in 0..(n - 1), c \in 0..(n - 1) :
             LET i == (r - y0) % n
                 j == (c - x0) % n
             IN  f[r + 1][c + 1] = IF i < d /\ j < d THEN MaskCell(i + 1, j + 1) ELSE 0

\* C10: make_fft_filter ends either with the "stripes are too fine" error
\* because a refinement window extended past the image, or by returning a
\* filter of the spectrum's shape that holds the complete window (placed
\* toroidally) and is zero elsewhere; it never fails with another error and
\* never returns a truncated or missing window.
C10_FailsCleanlyOrWholeWindow ==
    (pc = "done" /\ args.op = "make_fft_filter") =>
        \/ /\ outcome = Raise("Exception", 174)
           /\ ~WindowInBounds(loc.maxpoint, loc.window_dim, args.size)
        \/ /\ outcome.kind = "return"
           /\ outcome.value = fft_filter
           /\ HoldsWholeWindow(fft_filter, loc.mask_di, args.size)

(***************************************************************************)
(* Claims about calibration interleaved with extraction and synthesis.     *)
(***************************************************************************)
\* the filter make_fft_filter returns for the peak it ended at, if it
\* returns one
NewFilters ==
    LET n == args.size
        d == loc.mask_di
        sx == Shift(loc.maxpoint[1], d, n)
        sy == Shift(loc.maxpoint[2], d, n)
        y_min == LowEdge(loc.maxpoint[2], d, sy)
        y_max == HighEdge(loc.maxpoint[2], d, sy)
        x_min == LowEdge(loc.maxpoint[1], d, sx)
        x_max == HighEdge(loc.maxpoint[1], d, sx)
    IN  IF WindowWritable(y_min, y_max, x_min, x_max, d, n)
        THEN {NpRollAxis0(NpRollAxis1(
                 WriteWindow(Zeros2(n), y_min, y_max, x_min, x_max, d), -sx), -sy)}
        ELSE {}

\* C6: every value of the held filter that unwrap_interferometry loads, and
\* every value of the held control matrix that ac_pos_from_zernike loads,
\* while a calibration runs, is the complete previous value or the complete
\* new value.
C6_ReadersSeeWholeValues ==
    /\ \A k \in 1..Len(loc.seen) : loc.seen[k] \in ({args.held[2]} \cup NewFilters)
    /\ \A k \in 1..Len(loc.seen_matrix) :
          loc.seen_matrix[k] \in {args.held[3], NewMatrix}

====
